---- MODULE Spec2Model ----
(***************************************************************************)
(* TerraTrace, processes.py: polygon construction, closure and export.     *)
(*                                                                         *)
(* Positions are plane coordinates in units of 1/1250 m, so that the       *)
(* feet-to-metres factor 0.3048 is the integer 381 (UnitsPerFoot) and the  *)
(* direct geodesic problem is a displacement along one axis.  Python's     *)
(* None is NoneNum where a number is expected and "None" where a string is.*)
(***************************************************************************)
EXTENDS Integers, Sequences, FiniteSets, TLC

\* ------------------------------------------------------------------ bounds
MaxPoints == 3
MaxPrepLen == 2
MaxSnapLen == 3

\* --------------------------------------------------------------- constants
UnitsPerFoot == 381
ToleranceFeet == 10
NoneNum == 0 - 999999

Bearings == {0, 90, 180}
Distances == {4, 100}
Formats == {"DD", "DMS"}
CoordInputs == {0, NoneNum}
Names == {"Lot_A", "alt"}
default_filename == "Lot_A"

\* ------------------------------------------------------- python values
Num(n) == [t |-> "num", v |-> n]
NumStr(n) == [t |-> "numstr", v |-> n]
BadStr == [t |-> "str", v |-> 0]
NoneVal == [t |-> "none", v |-> 0]
Missing == [t |-> "missing", v |-> 0]

DictPoint(lat, lon) == [shape |-> "dict", lat |-> lat, lon |-> lon, items |-> <<>>]
SeqPoint(items) == [shape |-> "seq", lat |-> Missing, lon |-> Missing, items |-> items]
OtherPoint == [shape |-> "other", lat |-> Missing, lon |-> Missing, items |-> <<>>]

\* float(x): a number or a numeric string converts, None is a TypeError and
\* any other string a ValueError.
Float(x) ==
    CASE x.t \in {"num", "numstr"} -> [exc |-> "ok", v |-> x.v]
      [] x.t = "none" -> [exc |-> "TypeError", v |-> 0]
      [] OTHER -> [exc |-> "ValueError", v |-> 0]

\* tuple(map(float, point)): the first entry that does not convert decides.
RECURSIVE MapFloat(_, _, _)
MapFloat(items, k, acc) ==
    IF k > Len(items) THEN [exc |-> "ok", val |-> acc]
    ELSE LET f == Float(items[k]) IN
         IF f.exc = "ok" THEN MapFloat(items, k + 1, Append(acc, f.v))
         ELSE [exc |-> f.exc, val |-> <<>>]

\* One pass of the loop body of prepare_points_for_distance_check:
\* "ok" with the prepared point, "empty" for a return [], or the exception
\* that leaves the function.
PreparePoint(point) ==
    IF point.shape = "dict" THEN
        IF point.lat.t = "missing" \/ Float(point.lat).exc # "ok"
           \/ point.lon.t = "missing" \/ Float(point.lon).exc # "ok"
        THEN [exc |-> "empty", val |-> <<>>]
        ELSE [exc |-> "ok", val |-> <<Float(point.lat).v, Float(point.lon).v>>]
    ELSE IF point.shape = "seq" THEN
        LET m == MapFloat(point.items, 1, <<>>) IN
        IF m.exc = "ValueError" THEN [exc |-> "empty", val |-> <<>>] ELSE m
    ELSE [exc |-> "empty", val |-> <<>>]

RECURSIVE PrepareLoop(_, _, _)
PrepareLoop(pts, k, prepared_points) ==
    IF k > Len(pts) THEN [status |-> "returned", value |-> prepared_points]
    ELSE LET r == PreparePoint(pts[k]) IN
         CASE r.exc = "ok" -> PrepareLoop(pts, k + 1, Append(prepared_points, r.val))
           [] r.exc = "empty" -> [status |-> "returned", value |-> <<>>]
           [] OTHER -> [status |-> "raised", value |-> <<>>]

prepare_points_for_distance_check(pts) == PrepareLoop(pts, 1, <<>>)

\* ------------------------------------------------------------ geometry
Abs(n) == IF n < 0 THEN 0 - n ELSE n

\* distance * 0.3048, then Geodesic.WGS84.Direct from (lat, lon).
compute_new_coordinates(lat, lon, bearing, distance) ==
    LET distance_meters == distance * UnitsPerFoot IN
    CASE bearing = 0 -> <<lat + distance_meters, lon>>
      [] bearing = 90 -> <<lat, lon + distance_meters>>
      [] bearing = 180 -> <<lat - distance_meters, lon>>
      [] OTHER -> <<lat, lon - distance_meters>>

\* geopy_distance(p, q).feet <= feet
WithinFeet(p, q, feet) ==
    LET dx == Abs(p[1] - q[1])
        dy == Abs(p[2] - q[2])
        lim == feet * UnitsPerFoot
    IN dx <= lim /\ dy <= lim /\ dx * dx + dy * dy <= lim * lim

\* ------------------------------------------------------------- records
PIdMutFixed(n) == "P1"

\* f"P{...}": the id of the n-th vertex.
PId(n) == "P" \o ToString(n)

Vertex(id, lat, lon, bearing, distance) ==
    [id |-> id, lat |-> lat, lon |-> lon, bearing |-> bearing,
     distance_feet |-> distance, cc_lat |-> lat, cc_lon |-> lon]

VertexPoint(v) == DictPoint(Num(v.lat), Num(v.lon))
PolygonPoints(polygon) == [k \in 1..Len(polygon) |-> VertexPoint(polygon[k])]
Ids(polygon) == [k \in 1..Len(polygon) |-> polygon[k].id]

EmptyData ==
    [polygon |-> <<>>, hasCs |-> FALSE, construction_sequence |-> <<>>,
     tie_point |-> <<>>, monument |-> <<>>]

\* ClosureEvaluator: exactly closed, and nearly closed (within the 10 feet
\* tolerance and not exactly closed); a ring of fewer than two points is
\* neither.
is_closed(pts) == Len(pts) >= 2 /\ pts[1] = pts[Len(pts)]

is_polygon_close_to_being_closed(pts) ==
    /\ Len(pts) >= 2
    /\ ~is_closed(pts)
    /\ WithinFeet(pts[1], pts[Len(pts)], ToleranceFeet)

check_polygon_closure(d) ==
    is_closed(prepare_points_for_distance_check(PolygonPoints(d.polygon)).value)

\* polygon_closure_for_no_tie_point_export: the snap step.
polygon_closure_for_no_tie_point_export(d) ==
    LET pts == prepare_points_for_distance_check(PolygonPoints(d.polygon)).value
        n == Len(d.polygon)
    IN IF is_polygon_close_to_being_closed(pts)
       THEN [d EXCEPT !.polygon[n] = [@ EXCEPT !.id = d.polygon[1].id,
                                                !.lat = d.polygon[1].lat,
                                                !.lon = d.polygon[1].lon],
                      !.construction_sequence =
                          IF d.hasCs
                          THEN [d.construction_sequence EXCEPT
                                   ![Len(d.construction_sequence)] =
                                       d.construction_sequence[1]]
                          ELSE @]
       ELSE d

\* create_kml_process, lines 189-195: the closing-vertex append.
KmlCloseMutNoCopy(d) ==
    IF ~check_polygon_closure(d)
    THEN [d EXCEPT !.polygon = Append(@, d.polygon[Len(d.polygon)])]
    ELSE d

KmlCloseStep(d) ==
    IF ~check_polygon_closure(d)
    THEN LET closing_point == d.polygon[1] IN
         [d EXCEPT !.polygon = Append(@, closing_point),
                   !.construction_sequence =
                       IF d.hasCs /\ @[Len(@)] # closing_point.id
                       THEN Append(@, closing_point.id) ELSE @]
    ELSE d

\* main_choice_2_process, lines 331-336: closure is decided on the prepared
\* points list, the closing vertex goes to data['polygon'].
MainChoice2CloseMutAlways(d, prepared_points) ==
    [d EXCEPT !.polygon = Append(@, [d.polygon[1] EXCEPT !.id = "P1"])]

MainChoice2CloseStep(d, prepared_points) ==
    IF prepared_points[Len(prepared_points)] # prepared_points[1]
    THEN [d EXCEPT !.polygon = Append(@, [d.polygon[1] EXCEPT !.id = "P1"])]
    ELSE d

\* create_kml_content, lines 68-82: the ring handed to generate_kml_polygon.
KmlRing(polygon) ==
    LET polygon_points == [k \in 1..Len(polygon) |-> <<polygon[k].lat, polygon[k].lon>>] IN
    IF Len(polygon_points) = 0 THEN polygon_points
    ELSE LET start_point == polygon_points[1]
             end_point == polygon_points[Len(polygon_points)]
         IN IF WithinFeet(start_point, end_point, ToleranceFeet)
            THEN [polygon_points EXCEPT ![Len(polygon_points)] = start_point]
            ELSE Append(polygon_points, start_point)

\* save_as_geojson: one [lon, lat] entry per element of polygon_points.  A
\* vertex entry of the log is the very dict that sits in data['polygon'].
LogPoint(d, e) ==
    IF e.kind = "vertex" THEN
        LET v == d.polygon[e.ref] IN
        [id |-> v.id, bearing |-> v.bearing, distance_feet |-> v.distance_feet,
         cc_lat |-> v.cc_lat, cc_lon |-> v.cc_lon]
    ELSE [id |-> e.id, bearing |-> e.bearing, distance_feet |-> e.distance_feet,
          cc_lat |-> e.cc_lat, cc_lon |-> e.cc_lon]

VertexEntry(k) ==
    [kind |-> "vertex", ref |-> k, id |-> "", bearing |-> 0, distance_feet |-> 0,
     cc_lat |-> 0, cc_lon |-> 0]

MonumentEntry(label, bearing, distance, lat, lon) ==
    [kind |-> "monument", ref |-> 0, id |-> label, bearing |-> bearing,
     distance_feet |-> distance, cc_lat |-> lat, cc_lon |-> lon]

save_as_geojson(log, d) ==
    [k \in 1..Len(log.polygon_points) |->
        <<LogPoint(d, log.polygon_points[k]).cc_lon,
          LogPoint(d, log.polygon_points[k]).cc_lat>>]

\* ================================================================ state
VARIABLES
    flow,       \* the entry point exercised: "prep", "snap", "mc2" or "kml"
    pc,         \* position in the running function
    data,       \* the polygon record (data)
    log_data,   \* the log record of gather_data_from_user
    points,     \* the points list of main_choice_2_process
    loc,        \* locals: position, format, reuse flag, count, loop index
    ret,        \* "running", or what the entry point returned / "raised"
    hist,       \* history: record before the last closure step, the KML ring,
                \* whether a call was requested, what the user withheld, the
                \* ring start point, the accepted calls and the format of the
                \* last one
    fs,         \* files that exist, and the writes made
    exp,        \* export locals of create_kml_process
    prep        \* input and result of prepare_points_for_distance_check

vars == <<flow, pc, data, log_data, points, loc, ret, hist, fs, exp, prep>>

LocInit ==
    [lat |-> NoneNum, lon |-> NoneNum, coordinate_format |-> "None",
     use_same_format_for_all |-> FALSE, num_points |-> 0, i |-> 0]

LogInit == [coordinate_format |-> "", tie_point |-> <<>>, polygon_points |-> <<>>]

HistInit ==
    [pre |-> EmptyData, step |-> "none", runs |-> 0, ring |-> <<>>,
     asked |-> FALSE, withheld |-> {}, partial |-> FALSE,
     start |-> <<>>, calls |-> 0, format |-> ""]

ExpInit ==
    [tie_point_used |-> FALSE, file_type_choice |-> "", filename |-> "",
     checked |-> FALSE, attempted |-> {}, failed |-> {}]

PrepInit == [input |-> <<>>, result |-> [status |-> "none", value |-> <<>>]]

\* ---------------------------------------------------------- input sets
PointShapes ==
    { DictPoint(Num(1), Num(2)), DictPoint(NumStr(1), Num(2)),
      DictPoint(Missing, Num(2)), DictPoint(Num(1), BadStr),
      DictPoint(NoneVal, Num(2)),
      SeqPoint(<<Num(1), Num(2)>>), SeqPoint(<<Num(1)>>),
      SeqPoint(<<Num(1), Num(2), Num(3)>>), SeqPoint(<<Num(1), NoneVal>>),
      SeqPoint(<<BadStr, Num(2)>>), OtherPoint }

PrepInputs == UNION { [1..n -> PointShapes] : n \in 0..MaxPrepLen }

SnapPositions ==
    { <<0, 0>>, <<0, 4 * UnitsPerFoot>>, <<ToleranceFeet * UnitsPerFoot, 0>>,
      <<100 * UnitsPerFoot, 0>> }

SnapRecord(f, h) ==
    LET polygon == [k \in DOMAIN f |-> Vertex(PId(k), f[k][1], f[k][2], 0, 4)] IN
    [EmptyData EXCEPT !.polygon = polygon, !.hasCs = h,
                      !.construction_sequence = IF h THEN Ids(polygon) ELSE <<>>]

SnapRecords ==
    { SnapRecord(f, h) :
        f \in UNION { [1..n -> SnapPositions] : n \in 1..MaxSnapLen },
        h \in BOOLEAN }

Init ==
    /\ flow \in {"prep", "snap", "mc2", "kml"}
    /\ ret = "running"
    /\ points = <<>>
    /\ loc = LocInit
    /\ hist = HistInit
    /\ fs = [files |-> {}, writes |-> {}]
    /\ exp = ExpInit
    /\ prep \in IF flow = "prep"
                THEN { [PrepInit EXCEPT !.input = p] : p \in PrepInputs }
                ELSE { PrepInit }
    /\ data \in CASE flow = "snap" -> SnapRecords
                  [] flow = "mc2" -> { [EmptyData EXCEPT !.hasCs = h] : h \in BOOLEAN }
                  [] OTHER -> { EmptyData }
    /\ log_data = IF flow = "snap"
                  THEN [LogInit EXCEPT !.polygon_points =
                            [k \in 1..Len(data.polygon) |-> VertexEntry(k)]]
                  ELSE LogInit
    /\ pc = CASE flow = "prep" -> "prep_call"
              [] flow = "snap" -> "snap_call"
              [] flow = "mc2" -> "m_init"
              [] OTHER -> "g_menu"

\* ============================================== the two function flows
PrepareCall ==
    /\ flow = "prep" /\ pc = "prep_call"
    /\ LET r == prepare_points_for_distance_check(prep.input) IN
       /\ prep' = [prep EXCEPT !.result = r]
       /\ ret' = IF r.status = "raised" THEN "raised" ELSE "value"
    /\ pc' = "done"
    /\ UNCHANGED <<flow, data, log_data, points, loc, hist, fs, exp>>

\* polygon_closure_for_no_tie_point_export(data), called on a record (twice
\* in the "snap" flow) or by the caller of main_choice_2_process.
SnapCall ==
    /\ \/ flow = "snap" /\ pc = "snap_call"
       \/ flow = "mc2" /\ pc = "m_returned"
    /\ hist' = [hist EXCEPT !.pre = data, !.step = "snap", !.runs = @ + 1]
    /\ data' = polygon_closure_for_no_tie_point_export(data)
    /\ pc' = IF flow = "snap" /\ hist.runs = 0 THEN "snap_call" ELSE "done"
    /\ UNCHANGED <<flow, log_data, points, loc, ret, fs, exp, prep>>

\* ============================================ main_choice_2_process
Return(value) ==
    /\ pc' = "done"
    /\ ret' = value
    /\ points' = <<>>
    /\ loc' = LocInit

\* lines 281-286: get_initial_polygon_point, (None, None) unless both given.
MInitialPoint ==
    /\ flow = "mc2" /\ pc = "m_init"
    /\ \E lat \in CoordInputs, lon \in CoordInputs :
        IF lat = NoneNum \/ lon = NoneNum
        THEN /\ Return("None")
             /\ hist' = [hist EXCEPT !.withheld = @ \cup {"point"}]
        ELSE /\ loc' = [loc EXCEPT !.lat = lat, !.lon = lon]
             /\ hist' = [hist EXCEPT !.start = <<lat, lon>>]
             /\ pc' = "m_format"
             /\ UNCHANGED <<ret, points>>
    /\ UNCHANGED <<flow, data, log_data, fs, exp, prep>>

\* lines 289-299: the format, the reuse flag, the points list.
MFormat ==
    /\ flow = "mc2" /\ pc = "m_format"
    /\ \E coordinate_format \in Formats \cup {"None"}, same \in BOOLEAN :
        IF coordinate_format = "None"
        THEN /\ Return("None")
             /\ hist' = [hist EXCEPT !.withheld = @ \cup {"format"}]
        ELSE /\ loc' = [loc EXCEPT !.coordinate_format = coordinate_format,
                                   !.use_same_format_for_all = same]
             /\ points' = <<DictPoint(Num(loc.lat), Num(loc.lon))>>
             /\ pc' = "m_num"
             /\ UNCHANGED <<ret, hist>>
    /\ UNCHANGED <<flow, data, log_data, fs, exp, prep>>

\* lines 302-306, and the entry of gather_polygon_points, which starts the
\* ring at the initial point.
MNumPoints ==
    /\ flow = "mc2" /\ pc = "m_num"
    /\ \E num_points \in (0..MaxPoints) \cup {NoneNum} :
        IF num_points = NoneNum
        THEN /\ Return("None")
             /\ UNCHANGED data
        ELSE /\ loc' = [loc EXCEPT !.num_points = num_points, !.i = 0]
             /\ data' = [data EXCEPT
                    !.polygon = <<Vertex(PId(1), loc.lat, loc.lon, NoneNum, NoneNum)>>,
                    !.construction_sequence = IF data.hasCs THEN <<PId(1)>> ELSE <<>>]
             /\ pc' = "m_gather"
             /\ UNCHANGED <<ret, points>>
    /\ UNCHANGED <<flow, log_data, hist, fs, exp, prep>>

\* gather_polygon_points, one bearing/distance call: the loop stops when
\* either is withheld, else the vertex gets the next id and is appended.
MGatherStep ==
    /\ flow = "mc2" /\ pc = "m_gather" /\ loc.i < loc.num_points
    /\ \E bearing \in Bearings \cup {NoneNum}, distance \in Distances \cup {NoneNum},
          coordinate_format \in
              IF loc.use_same_format_for_all THEN {loc.coordinate_format} ELSE Formats :
        /\ hist' = [hist EXCEPT !.asked = TRUE,
                       !.calls = IF bearing = NoneNum \/ distance = NoneNum
                                 THEN @ ELSE @ + 1]
        /\ IF bearing = NoneNum \/ distance = NoneNum
           THEN /\ pc' = "m_close"
                /\ UNCHANGED <<data, points, loc>>
           ELSE LET new == compute_new_coordinates(loc.lat, loc.lon, bearing, distance)
                    id == PId(Len(data.polygon) + 1)
                IN /\ data' = [data EXCEPT
                          !.polygon = Append(@, Vertex(id, new[1], new[2], bearing, distance)),
                          !.construction_sequence = IF data.hasCs THEN Append(@, id) ELSE @]
                   /\ points' = Append(points, SeqPoint(<<Num(new[1]), Num(new[2])>>))
                   /\ loc' = [loc EXCEPT !.lat = new[1], !.lon = new[2], !.i = @ + 1,
                                         !.coordinate_format = coordinate_format]
                   /\ pc' = "m_gather"
    /\ UNCHANGED <<flow, log_data, ret, fs, exp, prep>>

MGatherEnd ==
    /\ flow = "mc2" /\ pc = "m_gather" /\ loc.i = loc.num_points
    /\ pc' = "m_close"
    /\ UNCHANGED <<flow, data, log_data, points, loc, ret, hist, fs, exp, prep>>

\* lines 313-316: a ValueError of gather_polygon_points ends the function.
MGatherError ==
    /\ flow = "mc2" /\ pc = "m_gather"
    /\ Return("None")
    /\ UNCHANGED <<flow, data, log_data, hist, fs, exp, prep>>

\* lines 325-336: prepare the points list and close the polygon; an exception
\* of prepare_points_for_distance_check leaves the function.
MClose ==
    /\ flow = "mc2" /\ pc = "m_close"
    /\ LET prepared == prepare_points_for_distance_check(points)
           prepared_points == prepared.value
       IN
       IF prepared.status = "raised"
       THEN /\ Return("raised")
            /\ UNCHANGED <<data, hist>>
       ELSE IF prepared_points = <<>>
       THEN /\ Return("record")
            /\ UNCHANGED <<data, hist>>
       ELSE /\ hist' = [hist EXCEPT !.pre = data, !.step = "mc2", !.runs = @ + 1]
            /\ data' = MainChoice2CloseStep(data, prepared_points)
            /\ pc' = "m_closed"
            /\ UNCHANGED <<ret, points, loc>>
    /\ UNCHANGED <<flow, log_data, fs, exp, prep>>

\* line 339
MReturn ==
    /\ flow = "mc2" /\ pc = "m_closed"
    /\ pc' = "m_returned"
    /\ ret' = "record"
    /\ points' = <<>>
    /\ loc' = LocInit
    /\ UNCHANGED <<flow, data, log_data, hist, fs, exp, prep>>

\* ===================== create_kml_process / gather_data_from_user
\* gather_data_from_user returns None: create_kml_process returns None too
\* (lines 180-182).
GatherNone ==
    /\ pc' = "done"
    /\ ret' = "None"
    /\ loc' = LocInit
    /\ log_data' = LogInit

\* An exception nothing catches leaves create_kml_process.
Raise ==
    /\ pc' = "done"
    /\ ret' = "raised"
    /\ loc' = LocInit
    /\ log_data' = LogInit

\* line 371: polygon_main_menu
GMenu ==
    /\ flow = "kml" /\ pc = "g_menu"
    /\ \E main_choice \in {"1", "2", "3"} :
        /\ exp' = [exp EXCEPT !.tie_point_used = (main_choice = "1")]
        /\ pc' = CASE main_choice = "1" -> "g_tie"
                   [] main_choice = "2" -> "g_initial"
                   [] OTHER -> "g_check"
    /\ UNCHANGED <<flow, data, log_data, points, loc, ret, hist, fs, prep>>

\* lines 376-382: the tie point; only (None, None) ends the session.
GTiePoint ==
    /\ flow = "kml" /\ pc = "g_tie"
    /\ \E lat \in CoordInputs, lon \in CoordInputs :
        IF lat = NoneNum /\ lon = NoneNum
        THEN /\ GatherNone
             /\ hist' = [hist EXCEPT !.withheld = @ \cup {"point"}]
             /\ UNCHANGED data
        ELSE /\ data' = [data EXCEPT !.tie_point = <<lat, lon>>]
             /\ log_data' = [log_data EXCEPT !.tie_point = <<lat, lon>>]
             /\ loc' = [loc EXCEPT !.lat = lat, !.lon = lon]
             /\ hist' = IF lat = NoneNum \/ lon = NoneNum
                        THEN [hist EXCEPT !.withheld = @ \cup {"point"}]
                        ELSE hist
             /\ pc' = "g_tie_format"
             /\ UNCHANGED ret
    /\ UNCHANGED <<flow, points, fs, exp, prep>>

\* lines 383-388, 407: the format (not tested), the reuse flag, tie_point_menu.
GTieFormat ==
    /\ flow = "kml" /\ pc = "g_tie_format"
    /\ \E coordinate_format \in Formats \cup {"None"}, same \in BOOLEAN,
          point_use_choice \in {"1", "2", "3"} :
        /\ log_data' = [log_data EXCEPT !.coordinate_format = coordinate_format]
        /\ loc' = [loc EXCEPT !.coordinate_format = coordinate_format,
                              !.use_same_format_for_all = same]
        /\ hist' = IF coordinate_format = "None"
                   THEN [hist EXCEPT !.withheld = @ \cup {"format"}]
                   ELSE hist
        /\ pc' = CASE point_use_choice = "1" -> "g_monument"
                   [] point_use_choice = "2" -> "g_num"
                   [] OTHER -> "g_check"
    /\ UNCHANGED <<flow, data, points, ret, fs, exp, prep>>

\* The position gather_monument_data steps from; where the tie point lacks a
\* coordinate, the one it puts in its place.
MonumentOrigin(c) == IF c = NoneNum THEN 0 ELSE c

\* lines 389-406: gather_monument_data returns results or none, or fails on a
\* tie point that lacks a coordinate; only `if results:` is tested.
GMonument ==
    /\ flow = "kml" /\ pc = "g_monument"
    /\ \E outcome \in {"results", "none", "raised"}, bearing \in {90}, distance \in {100},
          coordinate_format \in
              IF loc.use_same_format_for_all \/ loc.coordinate_format = "None"
              THEN {loc.coordinate_format} ELSE Formats :
        /\ outcome = "raised" => (loc.lat = NoneNum \/ loc.lon = NoneNum)
        /\ IF outcome = "none"
           THEN /\ GatherNone
                /\ UNCHANGED <<data, hist>>
           ELSE IF outcome = "raised"
           THEN /\ Raise
                /\ UNCHANGED <<data, hist>>
           ELSE
             LET m == compute_new_coordinates(MonumentOrigin(loc.lat),
                                              MonumentOrigin(loc.lon),
                                              bearing, distance) IN
             /\ data' = [data EXCEPT !.monument = <<m[1], m[2]>>]
             /\ log_data' = [log_data EXCEPT !.polygon_points =
                    Append(@, MonumentEntry("Monument", bearing, distance, m[1], m[2]))]
             /\ loc' = [loc EXCEPT !.lat = m[1], !.lon = m[2],
                                   !.coordinate_format = coordinate_format]
             /\ hist' = [hist EXCEPT !.asked = TRUE]
             /\ pc' = "g_num"
             /\ UNCHANGED ret
    /\ UNCHANGED <<flow, points, fs, exp, prep>>

\* lines 414-419: the initial point and the format (not tested).
GInitial ==
    /\ flow = "kml" /\ pc = "g_initial"
    /\ \E lat \in CoordInputs, lon \in CoordInputs,
          coordinate_format \in Formats \cup {"None"} :
        IF lat = NoneNum \/ lon = NoneNum
        THEN /\ GatherNone
             /\ hist' = [hist EXCEPT !.withheld = @ \cup {"point"}]
        ELSE /\ log_data' = [log_data EXCEPT !.coordinate_format = coordinate_format]
             /\ loc' = [loc EXCEPT !.lat = lat, !.lon = lon,
                                   !.coordinate_format = coordinate_format]
             /\ hist' = [hist EXCEPT !.start = <<lat, lon>>,
                            !.withheld = IF coordinate_format = "None"
                                         THEN @ \cup {"format"} ELSE @]
             /\ pc' = "g_num"
             /\ UNCHANGED ret
    /\ UNCHANGED <<flow, data, points, fs, exp, prep>>

\* lines 400, 408, 420: get_num_points_to_compute; range(None) raises.
GNumPoints ==
    /\ flow = "kml" /\ pc = "g_num"
    /\ \E num_points \in (0..MaxPoints) \cup {NoneNum} :
        IF num_points = NoneNum
        THEN Raise
        ELSE /\ loc' = [loc EXCEPT !.num_points = num_points, !.i = 0]
             /\ pc' = "t_loop"
             /\ UNCHANGED <<ret, log_data>>
    /\ UNCHANGED <<flow, data, points, hist, fs, exp, prep>>

\* line 564: the locals of transition_to_polygon_points end with it; the
\* caller keeps its reuse flag.
TransitionReturn ==
    [LocInit EXCEPT !.use_same_format_for_all = loc.use_same_format_for_all]

\* transition_to_polygon_points, lines 538-562: one iteration.
TLoopBody(coordinate_format, bearing, distance) ==
    IF bearing = NoneNum /\ distance = NoneNum
    THEN /\ pc' = "g_check"
         /\ hist' = [hist EXCEPT !.asked = TRUE]
         /\ loc' = TransitionReturn
         /\ UNCHANGED <<data, log_data, ret>>
    ELSE IF bearing = NoneNum \/ distance = NoneNum
              \/ loc.lat = NoneNum \/ loc.lon = NoneNum
    THEN /\ Raise
         /\ hist' = [hist EXCEPT !.asked = TRUE,
                        !.partial = (bearing = NoneNum \/ distance = NoneNum)]
         /\ UNCHANGED data
    ELSE LET new == compute_new_coordinates(loc.lat, loc.lon, bearing, distance)
             point_data == Vertex(PId(Len(data.polygon) + 1), new[1], new[2],
                                  bearing, distance)
         IN /\ data' = [data EXCEPT !.polygon = Append(@, point_data)]
            /\ log_data' = [log_data EXCEPT !.polygon_points =
                                Append(@, VertexEntry(Len(data.polygon) + 1))]
            /\ loc' = [loc EXCEPT !.lat = new[1], !.lon = new[2], !.i = @ + 1,
                                  !.coordinate_format = coordinate_format]
            /\ hist' = [hist EXCEPT !.asked = TRUE, !.calls = @ + 1,
                                    !.format = coordinate_format]
            /\ pc' = "t_loop"
            /\ UNCHANGED ret

TLoopStep ==
    /\ flow = "kml" /\ pc = "t_loop" /\ loc.i < loc.num_points
    /\ \E bearing \in Bearings \cup {NoneNum}, distance \in Distances \cup {NoneNum},
          coordinate_format \in
              IF loc.use_same_format_for_all THEN {loc.coordinate_format} ELSE Formats :
        TLoopBody(coordinate_format, bearing, distance)
    /\ UNCHANGED <<flow, points, fs, exp, prep>>

TLoopEnd ==
    /\ flow = "kml" /\ pc = "t_loop" /\ loc.i = loc.num_points
    /\ pc' = "g_check"
    /\ loc' = TransitionReturn
    /\ UNCHANGED <<flow, data, log_data, points, ret, hist, fs, exp, prep>>

\* ------------------------------------------------------------ files
Path(dir, name, ext) == <<dir, name, ext>>

\* What the output directories may hold when the session first looks at them.
InitialFileSets ==
    { {},
      {Path("saves/json", default_filename, "json"),
       Path("kml_directory", default_filename, "kml")} }

\* open(path, 'w') creates or empties the file; complete tells whether the
\* dump that follows went through.
OpenFile(path, ring, complete) ==
    fs' = [files |-> fs.files \cup {path},
           writes |-> fs.writes \cup
               {[path |-> path, checked |-> exp.checked,
                 existed |-> path \in fs.files, ring |-> ring,
                 complete |-> complete]}]

WriteFile(path, ring) == OpenFile(path, ring, TRUE)

\* The dump fails after open() has succeeded: the file is left empty or partial.
TruncateFile(path) == OpenFile(path, <<>>, FALSE)

\* lines 203-207: the three target paths of a base filename.
Collides(filename) ==
    \/ Path("kml_directory", filename, "kml") \in fs.files
    \/ Path("json_directory", filename, "json") \in fs.files
    \/ Path("json_directory", filename, "geojson") \in fs.files

\* lines 425-429: finalize_data on a non-empty polygon, else no record.  The
\* finalized record may carry a construction_sequence of its vertex ids.
GCheck ==
    /\ flow = "kml" /\ pc = "g_check"
    /\ IF data.polygon # <<>>
       THEN /\ \E h \in BOOLEAN, F \in InitialFileSets :
                /\ data' = [data EXCEPT !.hasCs = h,
                       !.construction_sequence = IF h THEN Ids(data.polygon) ELSE <<>>]
                /\ fs' = [fs EXCEPT !.files = F]
            /\ pc' = "g_save_json"
            /\ UNCHANGED <<ret, loc, log_data>>
       ELSE /\ GatherNone
            /\ UNCHANGED <<data, fs>>
    /\ UNCHANGED <<flow, points, hist, exp, prep>>

\* lines 432-436: the log record is written to saves/json.
GSaveJson ==
    /\ flow = "kml" /\ pc = "g_save_json"
    /\ \E outcome \in {"ok", "open_error", "write_error"} :
        CASE outcome = "ok" ->
                /\ WriteFile(Path("saves/json", default_filename, "json"), <<>>)
                /\ pc' = "g_save_geojson"
                /\ UNCHANGED <<ret, loc, log_data>>
          [] outcome = "open_error" ->
                /\ Raise
                /\ UNCHANGED fs
          [] OTHER ->
                /\ Raise
                /\ TruncateFile(Path("saves/json", default_filename, "json"))
    /\ UNCHANGED <<flow, data, points, hist, exp, prep>>

\* lines 439-443: save_as_geojson(log_data, ...), then the return.
GSaveGeojson ==
    /\ flow = "kml" /\ pc = "g_save_geojson"
    /\ \E outcome \in {"ok", "open_error", "write_error"} :
        CASE outcome = "ok" ->
                /\ WriteFile(Path("saves/geojson", default_filename, "geojson"),
                             save_as_geojson(log_data, data))
                /\ pc' = "k_content"
                /\ UNCHANGED <<ret, loc, log_data>>
          [] outcome = "open_error" ->
                /\ Raise
                /\ UNCHANGED fs
          [] OTHER ->
                /\ Raise
                /\ TruncateFile(Path("saves/geojson", default_filename, "geojson"))
    /\ UNCHANGED <<flow, data, points, hist, exp, prep>>

\* lines 184-195: the points, create_kml_content, and the closure step.
KClose ==
    /\ flow = "kml" /\ pc = "k_content"
    /\ hist' = [hist EXCEPT !.pre = data, !.step = "kml", !.runs = @ + 1,
                            !.ring = KmlRing(data.polygon), !.format = ""]
    /\ data' = KmlCloseStep(data)
    /\ loc' = LocInit
    /\ log_data' = LogInit
    /\ pc' = "k_decision"
    /\ UNCHANGED <<flow, points, ret, fs, exp, prep>>

\* lines 197-205, 250-253: export or not, the file type, the first filename.
KDecision ==
    /\ flow = "kml" /\ pc = "k_decision"
    /\ \E export \in BOOLEAN, file_type_choice \in {"K", "D", "G", "A"},
          filename \in Names :
        IF export
        THEN /\ exp' = [exp EXCEPT !.file_type_choice = file_type_choice,
                                   !.filename = filename]
             /\ pc' = "k_collide"
             /\ UNCHANGED ret
        ELSE /\ pc' = "done"
             /\ ret' = "record"
             /\ UNCHANGED exp
    /\ UNCHANGED <<flow, data, log_data, points, loc, hist, fs, prep>>

\* lines 207-212: ask again while one of the three paths exists.
KCollide ==
    /\ flow = "kml" /\ pc = "k_collide"
    /\ IF Collides(exp.filename)
       THEN /\ \E filename \in Names : exp' = [exp EXCEPT !.filename = filename]
            /\ pc' = "k_collide"
       ELSE /\ exp' = [exp EXCEPT !.checked = TRUE]
            /\ pc' = "k_kml"
    /\ UNCHANGED <<flow, data, log_data, points, loc, ret, hist, fs, prep>>

\* lines 216-223 and export_kml: content that is empty is not saved and
\* nothing fails (lines 125-130); the content may be None (kml_content[:100]
\* raises) and save_kml_to_file may fail, before or after it has opened the
\* file; these are caught here.
KExportKmlMutPropagates ==
    /\ flow = "kml" /\ pc = "k_kml"
    /\ IF exp.file_type_choice \in {"K", "A"}
       THEN \E outcome \in {"ok", "empty_content", "no_content", "io_error",
                             "write_error"} :
            IF outcome = "ok"
            THEN /\ exp' = [exp EXCEPT !.attempted = @ \cup {"kml"}]
                 /\ WriteFile(Path("kml_directory", exp.filename, "kml"), <<>>)
                 /\ pc' = "k_json"
                 /\ UNCHANGED ret
            ELSE IF outcome = "empty_content"
            THEN /\ exp' = [exp EXCEPT !.attempted = @ \cup {"kml"}]
                 /\ pc' = "k_json"
                 /\ UNCHANGED <<fs, ret>>
            ELSE /\ exp' = [exp EXCEPT !.attempted = @ \cup {"kml"},
                                       !.failed = @ \cup {"kml"}]
                 /\ pc' = "done"
                 /\ ret' = "raised"
                 /\ IF outcome = "write_error"
                    THEN TruncateFile(Path("kml_directory", exp.filename, "kml"))
                    ELSE UNCHANGED fs
       ELSE /\ pc' = "k_json"
            /\ UNCHANGED <<exp, fs, ret>>
    /\ UNCHANGED <<flow, data, log_data, points, loc, hist, prep>>

KExportKml ==
    /\ flow = "kml" /\ pc = "k_kml"
    /\ IF exp.file_type_choice \in {"K", "A"}
       THEN \E outcome \in {"ok", "empty_content", "no_content", "io_error",
                             "write_error"} :
            IF outcome = "ok"
            THEN /\ exp' = [exp EXCEPT !.attempted = @ \cup {"kml"}]
                 /\ WriteFile(Path("kml_directory", exp.filename, "kml"), <<>>)
            ELSE IF outcome = "empty_content"
            THEN /\ exp' = [exp EXCEPT !.attempted = @ \cup {"kml"}]
                 /\ UNCHANGED fs
            ELSE /\ exp' = [exp EXCEPT !.attempted = @ \cup {"kml"},
                                       !.failed = @ \cup {"kml"}]
                 /\ IF outcome = "write_error"
                    THEN TruncateFile(Path("kml_directory", exp.filename, "kml"))
                    ELSE UNCHANGED fs
       ELSE UNCHANGED <<exp, fs>>
    /\ pc' = "k_json"
    /\ UNCHANGED <<flow, data, log_data, points, loc, ret, hist, prep>>

\* lines 225-231 and export_json, which catches its own failures: makedirs,
\* finalize_json_structure or open() fail (io_error), or json.dump fails after
\* open() (write_error).
KExportJson ==
    /\ flow = "kml" /\ pc = "k_json"
    /\ IF exp.file_type_choice \in {"D", "A"}
       THEN \E outcome \in {"ok", "io_error", "write_error"} :
            IF outcome = "ok"
            THEN /\ exp' = [exp EXCEPT !.attempted = @ \cup {"json"}]
                 /\ WriteFile(Path("json_directory", exp.filename, "json"), <<>>)
            ELSE /\ exp' = [exp EXCEPT !.attempted = @ \cup {"json"},
                                       !.failed = @ \cup {"json"}]
                 /\ IF outcome = "write_error"
                    THEN TruncateFile(Path("json_directory", exp.filename, "json"))
                    ELSE UNCHANGED fs
       ELSE UNCHANGED <<exp, fs>>
    /\ pc' = "k_geojson"
    /\ UNCHANGED <<flow, data, log_data, points, loc, ret, hist, prep>>

\* lines 233-253: save_as_geojson(data, ...) reads data["polygon_points"],
\* a key the polygon record does not have: the KeyError is caught here.
KExportGeojson ==
    /\ flow = "kml" /\ pc = "k_geojson"
    /\ exp' = IF exp.file_type_choice \in {"G", "A"}
              THEN [exp EXCEPT !.attempted = @ \cup {"geojson"},
                               !.failed = @ \cup {"geojson"}]
              ELSE exp
    /\ pc' = "done"
    /\ ret' = "record"
    /\ UNCHANGED <<flow, data, log_data, points, loc, hist, fs, prep>>

Next ==
    \/ PrepareCall
    \/ SnapCall
    \/ MInitialPoint
    \/ MFormat
    \/ MNumPoints
    \/ MGatherStep
    \/ MGatherEnd
    \/ MGatherError
    \/ MClose
    \/ MReturn
    \/ GMenu
    \/ GTiePoint
    \/ GTieFormat
    \/ GMonument
    \/ GInitial
    \/ GNumPoints
    \/ TLoopStep
    \/ TLoopEnd
    \/ GCheck
    \/ GSaveJson
    \/ GSaveGeojson
    \/ KClose
    \/ KDecision
    \/ KCollide
    \/ KExportKml
    \/ KExportJson
    \/ KExportGeojson

Spec == Init /\ [][Next]_vars

\* =============================================================== claims
First(p) == p[1]
Last(p) == p[Len(p)]
Coincide(v, w) == v.lat = w.lat /\ v.lon = w.lon
NearlyClosed(p) ==
    /\ Len(p) >= 2
    /\ ~Coincide(First(p), Last(p))
    /\ WithinFeet(<<First(p).lat, First(p).lon>>, <<Last(p).lat, Last(p).lon>>,
                  ToleranceFeet)
Far(p) ==
    /\ Len(p) >= 2
    /\ ~WithinFeet(<<First(p).lat, First(p).lon>>, <<Last(p).lat, Last(p).lon>>,
                   ToleranceFeet)
SameIdLatLon(v, w) == v.id = w.id /\ v.lat = w.lat /\ v.lon = w.lon
PrefixKept(old, new) ==
    /\ Len(new) >= Len(old)
    /\ \A k \in 1..Len(old) : new[k] = old[k]

\* C1: closure resolution is idempotent: running a closure step once more on
\* the record it has resolved changes neither polygon nor
\* construction_sequence, for the snap step and for the closing-vertex
\* appends of create_kml_process and main_choice_2_process.
C1_ClosureIdempotent ==
    /\ hist.step = "snap" => polygon_closure_for_no_tie_point_export(data) = data
    /\ hist.step = "kml" => KmlCloseStep(data) = data
    /\ (flow = "mc2" /\ pc = "m_closed") =>
           MainChoice2CloseStep(data, prepare_points_for_distance_check(points).value)
               = data

\* C2: when first and last vertex are a nonzero distance of at most 10 feet
\* apart, every closure step of a session (the snap step, the closure of
\* create_kml_process, the closure of main_choice_2_process) gives the last
\* vertex the id, lat and lon of the first, keeps the number of vertices and
\* every other vertex, and overwrites the last entry of an existing
\* construction_sequence with its first; the ring of create_kml_content
\* likewise ends on its start point at the same length.
C2_NearlyClosedIsSnapped ==
    /\ (hist.step # "none" /\ NearlyClosed(hist.pre.polygon)) =>
        LET old == hist.pre.polygon
            n == Len(old)
        IN /\ Len(data.polygon) = n
           /\ SameIdLatLon(Last(data.polygon), First(old))
           /\ \A k \in 1..(n - 1) : data.polygon[k] = old[k]
           /\ data.hasCs =>
                 /\ Len(data.construction_sequence) = Len(hist.pre.construction_sequence)
                 /\ Last(data.construction_sequence) = First(hist.pre.construction_sequence)
    /\ (hist.step = "kml" /\ NearlyClosed(hist.pre.polygon)) =>
        /\ Len(hist.ring) = Len(hist.pre.polygon)
        /\ Last(hist.ring) = First(hist.ring)
        /\ First(hist.ring) = <<First(hist.pre.polygon).lat, First(hist.pre.polygon).lon>>

\* C3: when first and last vertex are more than 10 feet apart, the closure
\* step of create_kml_process and of main_choice_2_process appends exactly one
\* vertex with the id, lat and lon of the first vertex and leaves the earlier
\* vertices as they were; the ring of create_kml_content grows by its start
\* point.
C3_FarAppendsClosingVertex ==
    /\ (hist.step \in {"kml", "mc2"} /\ Far(hist.pre.polygon)) =>
        /\ Len(data.polygon) = Len(hist.pre.polygon) + 1
        /\ PrefixKept(hist.pre.polygon, data.polygon)
        /\ SameIdLatLon(Last(data.polygon), First(hist.pre.polygon))
    /\ (hist.step = "kml" /\ Far(hist.pre.polygon)) =>
        /\ Len(hist.ring) = Len(hist.pre.polygon) + 1
        /\ Last(hist.ring) = First(hist.ring)
        /\ \A k \in 1..Len(hist.pre.polygon) :
               hist.ring[k] = <<hist.pre.polygon[k].lat, hist.pre.polygon[k].lon>>

C3_Witness ==
    /\ hist.step = "kml"
    /\ Far(hist.pre.polygon)
    /\ Len(data.polygon) = 4
    /\ Last(data.polygon).id = "P1"

Malformed(point) ==
    \/ /\ point.shape = "dict"
       /\ \/ point.lat.t \in {"missing", "none", "str"}
          \/ point.lon.t \in {"missing", "none", "str"}
    \/ /\ point.shape = "seq"
       /\ \/ Len(point.items) # 2
          \/ \E k \in 1..Len(point.items) : point.items[k].t \in {"none", "str"}
    \/ point.shape = "other"

\* C5: prepare_points_for_distance_check returns the empty list, and does not
\* raise, for every input list that holds a malformed element.
C5_MalformedGivesEmpty ==
    (/\ flow = "prep" /\ pc = "done"
     /\ \E k \in 1..Len(prep.input) : Malformed(prep.input[k]))
    => prep.result = [status |-> "returned", value |-> <<>>]

\* C6: after any closure step on a record with a construction_sequence, the
\* last entry of construction_sequence is the id of the last vertex of polygon.
C6_SequenceEndsAtLastVertex ==
    (hist.step # "none" /\ data.hasCs) =>
        Last(data.construction_sequence) = Last(data.polygon).id

\* C7: a bearing/distance pair of which one half is withheld stops the loop of
\* transition_to_polygon_points without raising.
C7_HalfWithheldCallDoesNotRaise ==
    hist.partial => ret # "raised"

\* C8: once a session-level prerequisite (the initial or tie point, the
\* coordinate format) is withheld, no bearing/distance is requested, no vertex
\* is appended and the function returns no record.
C8_WithheldPrerequisiteEndsSession ==
    hist.withheld # {} =>
        /\ ~hist.asked
        /\ data.polygon = <<>>
        /\ ret # "record"

\* C9: with file type "A", create_kml_process attempts the KML, the JSON and
\* the GeoJSON export whatever the earlier ones did, and returns the record.
C9_AllExportsAttempted ==
    /\ (flow = "kml" /\ pc = "done" /\ exp.checked /\ exp.file_type_choice = "A") =>
        /\ exp.attempted = {"kml", "json", "geojson"}
        /\ ret = "record"
    /\ (flow = "kml" /\ exp.checked /\ exp.file_type_choice = "A") =>
        /\ pc = "k_json" => "kml" \in exp.attempted
        /\ pc = "k_geojson" => {"kml", "json"} \subseteq exp.attempted

C9_Witness ==
    /\ flow = "kml" /\ pc = "done"
    /\ exp.file_type_choice = "A"
    /\ exp.failed = {"kml", "json", "geojson"}
    /\ exp.attempted = {"kml", "json", "geojson"}
    /\ ret = "record"

\* C10: every file of the session is written after the filename collision
\* check has passed, and no write replaces a file that already existed.
C10_WritesFollowCollisionCheck ==
    \A w \in fs.writes : w.checked /\ ~w.existed

\* The vertex entries of the log record, in the order they were appended.
LogVertices(log) == SelectSeq(log.polygon_points, LAMBDA e : e.kind = "vertex")

\* C11: during construction, before any closure step, the k-th vertex of
\* polygon has the id "Pk" for every k up to the polygon length, and the log
\* record's polygon_points holds the same vertices (the very objects of
\* polygon) in the same order.
C11_SequentialIdsMirroredInLog ==
    /\ (flow \in {"mc2", "kml"} /\ hist.step = "none") =>
           \A k \in 1..Len(data.polygon) : data.polygon[k].id = "P" \o ToString(k)
    /\ (flow = "kml" /\ pc \in {"t_loop", "g_check", "g_save_json",
                                "g_save_geojson", "k_content"}) =>
           /\ Len(LogVertices(log_data)) = Len(data.polygon)
           /\ \A k \in 1..Len(data.polygon) :
                  /\ LogVertices(log_data)[k].ref = k
                  /\ LogPoint(data, LogVertices(log_data)[k]).id = "P" \o ToString(k)

C11_Witness ==
    /\ flow = "kml" /\ pc = "t_loop"
    /\ Len(data.polygon) = 3
    /\ Len(log_data.polygon_points) = 4
    /\ data.polygon[3].id = "P3"
    /\ LogVertices(log_data)[3].ref = 3

\* The [lon, lat] pairs of the vertices of a polygon, in vertex order.
VertexRing(polygon) ==
    [k \in 1..Len(polygon) |-> <<polygon[k].lon, polygon[k].lat>>]

GeojsonWrites == { w \in fs.writes : w.path[3] = "geojson" }

\* C12: the GeoJSON written for a finalized closed ring has a ring whose first
\* and last entries are identical, whose length is the number of vertices of
\* the polygon and whose entries are the [lon, lat] of the vertices in order
\* (no monument entry); this for the save at the end of gather_data_from_user
\* and for the GeoJSON export of create_kml_process.
C12_GeojsonRingIsTheClosedPolygon ==
    /\ (flow = "kml" /\ pc = "k_content" /\ check_polygon_closure(data)) =>
           \A w \in GeojsonWrites :
               /\ Len(w.ring) = Len(data.polygon)
               /\ First(w.ring) = Last(w.ring)
               /\ w.ring = VertexRing(data.polygon)
    /\ (flow = "kml" /\ pc = "done" /\ ret = "record"
           /\ "geojson" \in exp.attempted) =>
           \E w \in GeojsonWrites :
               /\ w.path = Path("json_directory", exp.filename, "geojson")
               /\ Len(w.ring) = Len(data.polygon)
               /\ First(w.ring) = Last(w.ring)
               /\ w.ring = VertexRing(data.polygon)

\* The vertex lies on the ring start point the session began from.
AtStart(v) == hist.start = <<v.lat, v.lon>>

\* C13: in a session begun directly from a ring start point, after n >= 1
\* accepted bearing/distance calls the polygon before closure holds n + 1
\* vertices, the first of them the start point; after three calls that do not
\* return to the start, the closure step yields five vertices, the fifth on
\* the start point.
C13_StartPointIsFirstVertex ==
    /\ (hist.start # <<>> /\ hist.step = "none" /\ hist.calls >= 1) =>
           /\ Len(data.polygon) = hist.calls + 1
           /\ AtStart(First(data.polygon))
    /\ (hist.start # <<>> /\ hist.step \in {"kml", "mc2"} /\ hist.calls = 3
           /\ ~AtStart(Last(hist.pre.polygon))) =>
           /\ Len(data.polygon) = 5
           /\ AtStart(data.polygon[5])

\* C14: every vertex of polygon, and every vertex entry of the log record's
\* polygon_points, has computed_coordinates equal to its lat and lon, in every
\* state of a session and after the snap step has moved the last vertex onto
\* the first.
C14_ComputedCoordinatesMirrorLatLon ==
    /\ \A k \in 1..Len(data.polygon) :
           /\ data.polygon[k].cc_lat = data.polygon[k].lat
           /\ data.polygon[k].cc_lon = data.polygon[k].lon
    /\ \A k \in 1..Len(LogVertices(log_data)) :
           LET e == LogVertices(log_data)[k] IN
           /\ LogPoint(data, e).cc_lat = data.polygon[e.ref].lat
           /\ LogPoint(data, e).cc_lon = data.polygon[e.ref].lon

\* C15: when the session has gathered its points and saves the log record,
\* the record's coordinate_format is the format that was selected for the
\* last accepted bearing/distance call.
C15_LogFormatIsLastUsed ==
    (/\ flow = "kml"
     /\ pc \in {"g_save_json", "g_save_geojson", "k_content"}
     /\ hist.format # "") =>
        log_data.coordinate_format = hist.format

====
